---- MODULE Spec2Model ----
(***************************************************************************)
(* Master/slave job scheduler of plot/plot_srf_perspective.py.            *)
(* The master owns the job list msg_list, the dependency counter msg_deps *)
(* and the per-slave slot table in_progress; slaves pull work with        *)
(* sendrecv until they are handed the StopIteration sentinel.             *)
(*                                                                         *)
(* The master is one sequential process that shares no memory with the    *)
(* slaves, so one iteration of its loop (receive, dependency tracking,    *)
(* stop/wait, send) is one step Serve; the values it computes on the way  *)
(* are the operators ResolvedList, ResolvedDeps and ReplyTo.  A slave     *)
(* takes a step when sendrecv returns and when its loop body is done and  *)
(* the next request leaves.  Job handlers are opaque and return.          *)
(***************************************************************************)
EXTENDS Integers, Sequences, FiniteSets, TLC

\* ------------------------------------------------------------------ bounds
MaxFrames == 2     \* largest int(time * framerate) in a run without xyts
MaxFramesSr == 2   \* largest frames_sr (dynamic frames)
MaxNt == 2         \* largest xfile.nt (timeslices in the xyts file)

\* args.nproc of the runs enumerated over all other inputs.
Widths == {1, 2}

\* 1 / (framerate * xfile.dt) as <<numerator, denominator>>: one frame and
\* two frames per timeslice.
XSteps == {<<1, 1>>, <<1, 2>>}

\* <<int(time * framerate), int(mtime * framerate)>> of the runs with xyts.
XytsFrames == {<<2, 2>>}

VARIABLES
    nproc,        \* slaves not yet stopped (also the fan-out width)
    msg_list,     \* list of work for slaves to do
    msg_deps,     \* dependencies for tasks yet to be added
    in_progress,  \* job tracking, one slot per slave
    mpc,          \* master position: loop, gather, done
    spc,          \* slave position: blocked, exec, gather, done, crashed
    task,         \* slave: the reply being worked on
    requests,     \* slaves whose request has not been received yet
    reply,        \* reply in flight to each slave
    cfg,          \* the run's inputs (fixed during the run)
    nextid,       \* history: identity of the next list object appended
    sent,         \* history: non-None replies in send order
    waited,       \* history: a None reply was sent
    stops,        \* history: StopIteration replies sent to each slave
    observed,     \* history: generator jobs whose completion was handled
    executed      \* history: ids of the jobs whose handler has returned

vars == <<nproc, msg_list, msg_deps, in_progress, mpc, spc, task, requests,
          reply, cfg, nextid, sent, waited, stops, observed, executed>>

mvars == <<nproc, msg_list, msg_deps, in_progress, mpc>>
hvars == <<nextid, sent, waited, stops, observed, executed>>

\* ------------------------------------------------------------- list entries
\* A list entry [function, parameters...]; id stands for the identity of the
\* Python list object, seq = -1 stands for seq None, sim_time is in units of
\* 1 / framerate seconds (-1 for the frames that carry sim_time -1).
Entry(kind, start, inc, seq, sim_time, id) ==
    [kind |-> kind, start |-> start, inc |-> inc, seq |-> seq,
     sim_time |-> sim_time, id |-> id]

None == Entry("None", -1, -1, -1, -1, 0)
StopIteration == Entry("StopIteration", -1, -1, -1, -1, 0)
NoMsg == Entry("-", -1, -1, -1, -1, 0)

load_xyts(id) == Entry("load_xyts", -1, -1, -1, -1, id)
load_xyts_ts(start, inc, id) == Entry("load_xyts_ts", start, inc, -1, -1, id)
timeslice(seq, sim_time, id) == Entry("timeslice", -1, -1, seq, sim_time, id)

IsJob(e) == e.kind \in {"load_xyts", "load_xyts_ts", "timeslice"}
IsGenerator(e) == e.kind \in {"load_xyts", "load_xyts_ts"}

Slaves == 0 .. (cfg.W - 1)

\* int(round(sim_time / xfile.dt)) for sim_time = i / framerate.
xpos(i) == (2 * i * cfg.xstep[1] + cfg.xstep[2]) \div (2 * cfg.xstep[2])

\* Variant: the stride is ignored.
InRange_NoStride(x, start, stop, step) ==
    /\ x >= start
    /\ x < stop

\* Variant: the range has no end, frames past the last time slice count too.
InRange_NoStop(x, start, stop, step) ==
    /\ x >= start
    /\ (x - start) % step = 0

\* xpos in range(start, xfile.nt, step)
InRange(x, start, stop, step) ==
    /\ x >= start
    /\ x < stop
    /\ (x - start) % step = 0

\* ------------------------------------------------------------------- Init
\* msg_list and msg_deps as the master builds them before spawning slaves.
InitList(animate, xyts_file, frames0, t_frames) ==
    LET pre == IF xyts_file /\ animate THEN <<load_xyts(1)>> ELSE <<>>
    IN  IF ~animate
        THEN <<timeslice(-1, -1, 1)>>
        ELSE pre \o [k \in 1 .. (frames0 + t_frames) |->
                        timeslice(k - 1, -1, Len(pre) + k)]

InitDeps(animate, xyts_file) == IF xyts_file /\ animate THEN 1 ELSE 0

\* Inputs for which the master reaches its loop: t_frames <= frames
\* (mtime <= time), and no division by frames - 1 = 0 or t_frames - 1 = 0.
FramePairs(maxf) ==
    {p \in (0 .. maxf) \X (0 .. maxf) : p[2] >= 2 /\ p[2] <= p[1]}

\* Scenario A of the specification: 3 slaves, 10 frames, no dependencies.
ScenarioAInput ==
    [W |-> 3, animate |-> TRUE, xyts_file |-> FALSE, frames0 |-> 5,
     t_frames |-> 5, frames_sr |-> 0, nt |-> 0, xstep |-> <<1, 1>>]

\* A run of 3 slaves with xyts: timeslice 0 serves frame 0, timeslice 1
\* frames 1 and 2, and the third load_xyts_ts serves none.
ThreeSlaveInput ==
    [W |-> 3, animate |-> TRUE, xyts_file |-> TRUE, frames0 |-> 2,
     t_frames |-> 2, frames_sr |-> 3, nt |-> 2, xstep |-> <<1, 2>>]

\* The runs of one or two slaves, over all other inputs in the bounds.
SmallConfigs ==
    {[W |-> w, animate |-> FALSE, xyts_file |-> x, frames0 |-> 0,
      t_frames |-> 0, frames_sr |-> 0, nt |-> 0, xstep |-> <<1, 1>>] :
        w \in Widths, x \in BOOLEAN}
    \cup
    {[W |-> w, animate |-> TRUE, xyts_file |-> FALSE, frames0 |-> p[1],
      t_frames |-> p[2], frames_sr |-> 0, nt |-> 0, xstep |-> <<1, 1>>] :
        w \in Widths, p \in FramePairs(MaxFrames) \cup {<<0, 0>>}}
    \cup
    {[W |-> w, animate |-> TRUE, xyts_file |-> TRUE, frames0 |-> p[1],
      t_frames |-> p[2], frames_sr |-> fs, nt |-> n, xstep |-> xs] :
        w \in Widths, p \in XytsFrames, fs \in 0 .. MaxFramesSr,
        n \in 0 .. MaxNt, xs \in XSteps}

Configs == SmallConfigs \cup {ScenarioAInput, ThreeSlaveInput}

\* Every rank some run has.
Ranks == UNION {0 .. (c.W - 1) : c \in Configs}

\* frames as the loop sees it (after frames += meta['t_frames']).
frames == cfg.frames0 + cfg.t_frames

\* The state in which every spawned slave has sent its first request.
InitOf(configs) ==
    /\ cfg \in configs
    /\ nproc = cfg.W
    /\ msg_list = InitList(cfg.animate, cfg.xyts_file, cfg.frames0, cfg.t_frames)
    /\ msg_deps = InitDeps(cfg.animate, cfg.xyts_file)
    /\ in_progress = [w \in 0 .. (cfg.W - 1) |-> None]
    /\ mpc = "loop"
    /\ spc = [w \in 0 .. (cfg.W - 1) |-> "blocked"]
    /\ task = [w \in 0 .. (cfg.W - 1) |-> None]
    /\ requests = 0 .. (cfg.W - 1)
    /\ reply = [w \in 0 .. (cfg.W - 1) |-> NoMsg]
    /\ nextid = Len(msg_list) + 1
    /\ sent = <<>>
    /\ waited = FALSE
    /\ stops = [w \in 0 .. (cfg.W - 1) |-> 0]
    /\ observed = {}
    /\ executed = {}

Init == InitOf(Configs)

\* The runs of one or two slaves only.
InitSmall == InitOf(SmallConfigs)

\* ----------------------------------------------------------------- master
\* Variant: start counts from 1.
ShardJobs_FromOne(n, first) ==
    [k \in 1 .. n |-> load_xyts_ts(k, n, first + k - 1)]

\* Variant: the loop stops one short of nproc.
ShardJobs_OneShort(n, first) ==
    [k \in 1 .. (n - 1) |-> load_xyts_ts(k - 1, n, first + k - 1)]

\* Variant: every load_xyts_ts job is given 'inc': 1.
ShardJobs_IncOne(n, first) ==
    [k \in 1 .. n |-> load_xyts_ts(k - 1, 1, first + k - 1)]

\* for i in xrange(nproc): msg_list.append([load_xyts_ts, meta, {...}])
ShardJobs(n, first) ==
    [k \in 1 .. n |-> load_xyts_ts(k - 1, n, first + k - 1)]

\* The frames i in xrange(frames_sr) with xpos in ready, in increasing i.
ReadyFrames(start, step) ==
    SelectSeq([k \in 1 .. cfg.frames_sr |-> k - 1],
              LAMBDA i : InRange(xpos(i), start, cfg.nt, step))

RenderJobs(start, step, first) ==
    LET r == ReadyFrames(start, step)
    IN  [k \in 1 .. Len(r) |-> timeslice(frames + r[k], r[k], first + k - 1)]

\* dependency tracking: the jobs appended for the finished entry
Expansion(f, n, first) ==
    IF f.kind = "load_xyts" THEN ShardJobs(n, first)
    ELSE IF f.kind = "load_xyts_ts" THEN RenderJobs(f.start, n, first)
    ELSE <<>>

\* Variant: the fan-out forgets msg_deps += nproc.
DepsAfter_NoFanOut(f, n, deps) ==
    IF f.kind \in {"load_xyts", "load_xyts_ts"} THEN deps - 1 ELSE deps

\* Variant: a finished load_xyts_ts does not lower msg_deps.
DepsAfter_ShardKept(f, n, deps) ==
    IF f.kind = "load_xyts" THEN deps - 1 + n ELSE deps

\* Variant: the fan-out forgets msg_deps -= 1 for the finished load_xyts.
DepsAfter_FanOutOnly(f, n, deps) ==
    IF f.kind = "load_xyts" THEN deps + n
    ELSE IF f.kind = "load_xyts_ts" THEN deps - 1
    ELSE deps

\* Variant: msg_deps -= 1 sits inside `if xpos in ready`, so a load_xyts_ts
\* without frames is not counted.
DepsAfter_SkipEmpty(f, n, deps) ==
    IF f.kind = "load_xyts" THEN deps - 1 + n
    ELSE IF f.kind = "load_xyts_ts" /\ Len(ReadyFrames(f.start, n)) > 0
         THEN deps - 1
    ELSE deps

\* Variant: every finished job lowers msg_deps, timeslice jobs included.
DepsAfter_AnyJob(f, n, deps) ==
    IF f.kind = "load_xyts" THEN deps - 1 + n
    ELSE IF f.kind \in {"load_xyts_ts", "timeslice"} THEN deps - 1
    ELSE deps

\* dependency tracking: msg_deps after the finished entry was handled
DepsAfter(f, n, deps) ==
    IF f.kind = "load_xyts" THEN deps - 1 + n
    ELSE IF f.kind = "load_xyts_ts" THEN deps - 1
    ELSE deps

\* Variant: the test of msg_deps is inverted.
Sentinel_Inverted(deps) == IF deps # 0 THEN StopIteration ELSE None

\* Variant: StopIteration is sent while one generator job is still counted.
Sentinel_StopEarly(deps) == IF deps <= 1 THEN StopIteration ELSE None

\* if len(msg_list) == 0: append StopIteration or None
Sentinel(deps) == IF deps = 0 THEN StopIteration ELSE None

\* Variant: the sentinel is appended while one job is still in the list.
StopWait_OneLeft(list, deps) ==
    IF Len(list) <= 1 THEN Append(list, Sentinel(deps)) ELSE list

StopWait(list, deps) ==
    IF Len(list) = 0 THEN Append(list, Sentinel(deps)) ELSE list

\* Variant: nproc -= 1 for either sentinel.
NprocAfter_AnySentinel(list, deps, n) ==
    IF Len(list) = 0 THEN n - 1 ELSE n

\* Variant: nproc is lowered twice for one StopIteration.
NprocAfter_ByTwo(list, deps, n) ==
    IF Len(list) = 0 /\ deps = 0 THEN n - 2 ELSE n

\* nproc -= 1 next to the append of StopIteration
NprocAfter(list, deps, n) ==
    IF Len(list) = 0 /\ deps = 0 THEN n - 1 ELSE n

\* Variant: the entry sent stays in the list.
Rest_Kept(list) == list

\* del(msg_list[0])
Rest(list) == Tail(list)

\* Variant: the reply goes to rank MASTER instead of slave_id.
Dest_Master(id) == 0

\* dest of comm.send
Dest(id) == id

\* Variant: StopIteration is not tracked, the slot is emptied instead.
Slot_NoStop(msg) == IF msg = StopIteration THEN None ELSE msg

\* in_progress[slave_id] = msg
Slot(msg) == msg

\* Variant: new jobs are inserted at the head of the list.
ResolvedList_Prepend(w) == Expansion(in_progress[w], nproc, nextid) \o msg_list

\* The values one iteration of the master loop computes for a request of w:
\* the list and counter after the dependency tracking, the list after the
\* stop/wait step, and the reply.
ResolvedList(w) == msg_list \o Expansion(in_progress[w], nproc, nextid)
ResolvedDeps(w) == DepsAfter(in_progress[w], nproc, msg_deps)
ReplyTo(w) == Head(StopWait(ResolvedList(w), ResolvedDeps(w)))

\* One iteration of `while nproc:` serving the request of slave w.
Serve(w) ==
    /\ mpc = "loop"
    /\ w \in requests
    /\ requests' = requests \ {w}
    /\ LET finished == in_progress[w]
           msg == ReplyTo(w)
       IN  /\ msg_deps' = ResolvedDeps(w)
           /\ nextid' = nextid + Len(Expansion(finished, nproc, nextid))
           /\ observed' = IF IsGenerator(finished)
                          THEN observed \cup {finished} ELSE observed
           /\ nproc' = NprocAfter(ResolvedList(w), ResolvedDeps(w), nproc)
           /\ msg_list' = Rest(StopWait(ResolvedList(w), ResolvedDeps(w)))
           /\ reply' = [reply EXCEPT ![Dest(w)] = msg]
           /\ in_progress' = [in_progress EXCEPT ![w] = Slot(msg)]
           /\ sent' = IF msg = None THEN sent ELSE Append(sent, msg)
           /\ waited' = (waited \/ msg = None)
           /\ stops' = IF msg = StopIteration
                       THEN [stops EXCEPT ![Dest(w)] = @ + 1]
                       ELSE stops
    /\ mpc' = IF nproc' = 0 THEN "gather" ELSE "loop"
    /\ UNCHANGED <<spc, task, cfg, executed>>

\* reports = comm.gather(None, root = MPI.ROOT); comm.Disconnect()
MasterGather ==
    /\ mpc = "gather"
    /\ \A w \in Slaves : spc[w] = "gather"
    /\ mpc' = "done"
    /\ spc' = [w \in Slaves |-> "done"]
    /\ UNCHANGED <<nproc, msg_list, msg_deps, in_progress, task, requests,
                   reply, cfg, hvars>>

\* ------------------------------------------------------------------ slave
\* Variant: the sentinel of iter() is missing, every reply enters the body.
AfterReply_NoSentinel(msg) == "exec"

\* iter(lambda: comm.sendrecv(...), StopIteration): the sentinel ends the
\* for loop, any other reply enters its body.
AfterReply(msg) == IF msg = StopIteration THEN "gather" ELSE "exec"

\* comm.sendrecv returns; iter(..., StopIteration) ends the loop on the sentinel
SlaveReceive(w) ==
    /\ spc[w] = "blocked"
    /\ reply[w] # NoMsg
    /\ task' = [task EXCEPT ![w] = reply[w]]
    /\ reply' = [reply EXCEPT ![w] = NoMsg]
    /\ spc' = [spc EXCEPT ![w] = AfterReply(reply[w])]
    /\ UNCHANGED <<mvars, requests, cfg, hvars>>

\* Variant: the final else runs timeslice instead of printing.
Handler_ElseTimeslice(t) ==
    IF t = None THEN "sleep"
    ELSE IF t.kind \in {"load_xyts", "load_xyts_ts"} THEN t.kind
    ELSE "timeslice"

\* The branch of the if/elif chain of the loop body that task t takes.
Handler(t) ==
    IF t = None THEN "sleep"
    ELSE IF t.kind = "load_xyts" THEN "load_xyts"
    ELSE IF t.kind = "load_xyts_ts" THEN "load_xyts_ts"
    ELSE IF t.kind = "timeslice" THEN "timeslice"
    ELSE "print"

\* the loop body (sleep(1), a handler, or the unknown-task print) returns
\* and the next comm.sendrecv sends its request
SlaveExec(w) ==
    /\ spc[w] = "exec"
    /\ spc' = [spc EXCEPT ![w] = "blocked"]
    /\ requests' = requests \cup {w}
    /\ executed' = IF Handler(task[w]) \in {"sleep", "print"}
                   THEN executed
                   ELSE executed \cup {task[w].id}
    /\ UNCHANGED <<mvars, task, reply, cfg, nextid, sent, waited, stops,
                   observed>>

\* ------------------------------------------------------------------- Next
Next ==
    \/ \E w \in Slaves : Serve(w)
    \/ MasterGather
    \/ \E w \in Slaves : SlaveReceive(w)
    \/ \E w \in Slaves : SlaveExec(w)

Spec == Init /\ [][Next]_vars

\* The slave process ends inside its loop body: a handler raises (nothing
\* in the slave loop catches it) or the process dies during sleep(1).  Its
\* entry stays unfinished and it sends no further request.
Crash(w) ==
    /\ spc[w] = "exec"
    /\ spc' = [spc EXCEPT ![w] = "crashed"]
    /\ UNCHANGED <<mvars, task, requests, reply, cfg, hvars>>

NextCrash ==
    \/ \E w \in Slaves : Serve(w)
    \/ MasterGather
    \/ \E w \in Slaves : SlaveReceive(w)
    \/ \E w \in Slaves : SlaveExec(w)
    \/ \E w \in Slaves : Crash(w)

\* The runs of one or two slaves in which slaves may crash.
CrashSpec == InitSmall /\ [][NextCrash]_vars

\* A reply [tag, ...] whose tag is none of the three job functions.
Unknown == Entry("unknown", -1, -1, -1, -1, 0)

\* What comm.sendrecv can return to a slave when the master is left open:
\* either sentinel, a job of each kind, or an entry with an unknown tag.
Replies ==
    {None, StopIteration, Unknown, load_xyts(1), load_xyts_ts(0, cfg.W, 2),
     timeslice(0, 0, 3)}

\* The request of slave w is answered with any of these replies.
AnyReply(w) ==
    /\ w \in requests
    /\ requests' = requests \ {w}
    /\ \E msg \in Replies : reply' = [reply EXCEPT ![w] = msg]
    /\ UNCHANGED <<mvars, spc, task, cfg, hvars>>

NextSlaveLoop ==
    \/ \E w \in Slaves : AnyReply(w)
    \/ \E w \in Slaves : SlaveReceive(w)
    \/ \E w \in Slaves : SlaveExec(w)

\* The slave loop on its own, against every reply it can be handed.
SlaveLoopSpec == InitSmall /\ [][NextSlaveLoop]_vars

\* Fair scheduling: every slave keeps running, every pending request is
\* eventually received, and the gather completes once all have joined.
Fairness ==
    /\ \A w \in Ranks : WF_vars(Serve(w))
    /\ \A w \in Ranks : WF_vars(w \in Slaves /\ SlaveReceive(w))
    /\ \A w \in Ranks : WF_vars(w \in Slaves /\ SlaveExec(w))
    /\ WF_vars(MasterGather)

LiveSpec == InitSmall /\ [][Next]_vars /\ Fairness

\* The runs with crashes in which every slave that has not crashed, and the
\* master, keep running.
LiveCrashSpec == InitSmall /\ [][NextCrash]_vars /\ Fairness

\* ---------------------------------------------------------------- helpers
IsPrefix(s, t) == Len(s) <= Len(t) /\ \A i \in 1 .. Len(s) : s[i] = t[i]

Ids(list) == [i \in 1 .. Len(list) |-> list[i].id]

Jobs(list) == SelectSeq(list, IsJob)

GenInList(list) == Cardinality({i \in 1 .. Len(list) : IsGenerator(list[i])})

GenInSlots(S) == Cardinality({w \in S : IsGenerator(in_progress[w])})

\* The job slave w holds: a Job reply in flight to it, or a Job it executes.
InFlight(w) ==
    (IF IsJob(reply[w]) THEN 1 ELSE 0)
    + (IF spc[w] = "exec" /\ IsJob(task[w]) THEN 1 ELSE 0)

\* The master's loop has handled at least one completed generator job.
SomeObserved == observed # {}

\* ------------------------------------------------------------------ claims

\* C1: in every reachable state of a crash-free run the dependency counter
\* msg_deps is >= 0.
C1_DepsNonNegative == msg_deps >= 0

\* C1 witness: generator completions were handled and the counter is back at 0.
C1_Witness == SomeObserved /\ msg_deps = 0 /\ cfg.W = 2

\* C2: each slave is sent StopIteration at most once; once the master has
\* left its loop every slave has been sent it exactly once, and when the run
\* is over every slave has received it.
C2_ExactlyOneStop ==
    /\ \A w \in Slaves : stops[w] <= 1
    /\ \A w \in Slaves :
          spc[w] \in {"gather", "done"} =>
              stops[w] = 1 /\ task[w] = StopIteration
    /\ mpc # "loop" => \A w \in Slaves : stops[w] = 1
    /\ mpc = "done" => \A w \in Slaves : spc[w] = "done"

\* C2 witness: a run of two slaves that ended with both stopped.
C2_Witness == mpc = "done" /\ cfg.W = 2 /\ \A w \in Slaves : stops[w] = 1

\* C3: under fair scheduling the master eventually leaves its loop with
\* nproc = 0, whatever the initial list (with or without load_xyts).
C3_Terminates == <>(mpc # "loop" /\ nproc = 0)

\* C3 witness: the master left its loop in a run that started with load_xyts.
C3_Witness == mpc # "loop" /\ nproc = 0 /\ cfg.animate /\ cfg.xyts_file

\* C4: a slave holds at most one Job at any time; a reply is in flight only
\* to a slave that is blocked in sendrecv with its request already received,
\* and the Job a slave holds is the one recorded in its slot in_progress[w].
C4_OneJobInFlight ==
    \A w \in Slaves :
        /\ InFlight(w) <= 1
        /\ reply[w] # NoMsg => spc[w] = "blocked" /\ w \notin requests
        /\ spc[w] = "exec" => reply[w] = NoMsg /\ w \notin requests
                              /\ task[w] = in_progress[w]
        /\ reply[w] # NoMsg => reply[w] = in_progress[w]

\* C4 witness: one slave executes a Job while a Job reply travels to another.
C4_Witness ==
    \E w, v \in Slaves :
        /\ w # v
        /\ spc[w] = "exec" /\ IsJob(task[w])
        /\ IsJob(reply[v])

\* C5: the iteration that handles a finished load_xyts appends exactly W
\* load_xyts_ts jobs, with start = 0 .. W-1 in this order and inc = W.
C5_PrepFanOut ==
    [][\A w \in requests :
          (w \notin requests' /\ in_progress[w].kind = "load_xyts") =>
              <<reply'[w]>> \o msg_list' =
                  msg_list \o [k \in 1 .. cfg.W |->
                                  load_xyts_ts(k - 1, cfg.W, nextid + k - 1)]
      ]_vars

\* C5 witness: the fan-out of a run with two slaves is in the list.
C5_Witness ==
    /\ cfg.W = 2
    /\ \E i \in 1 .. Len(msg_list) :
          msg_list[i].kind = "load_xyts_ts" /\ msg_list[i].start = 1

\* C6: a job entry is sent at most once: the entries sent are pairwise
\* distinct, none of them is still in the list, and no two slots hold the
\* same job.
C6_DispatchedOnce ==
    /\ \A i, j \in 1 .. Len(sent) :
          (i # j /\ IsJob(sent[i])) => sent[i] # sent[j]
    /\ \A i \in 1 .. Len(sent) : \A j \in 1 .. Len(msg_list) :
          sent[i] # msg_list[j]
    /\ \A w, v \in Slaves :
          (w # v /\ IsJob(in_progress[w])) => in_progress[w] # in_progress[v]

\* C6 witness: several jobs were sent and more are waiting in the list.
C6_Witness == Len(Jobs(sent)) >= 3 /\ Len(msg_list) >= 2

\* C7: the jobs are sent in the order in which they were appended: the jobs
\* sent so far followed by the list are all entries in append order.
C7_Fifo ==
    Ids(Jobs(sent)) \o Ids(msg_list) = [i \in 1 .. (nextid - 1) |-> i]

\* C7 witness: jobs appended by the dependency tracking were sent after the
\* initial ones.
C7_Witness ==
    /\ \E i \in 1 .. Len(sent) : sent[i].kind = "timeslice" /\ sent[i].sim_time >= 0
    /\ \E i \in 1 .. Len(sent) : sent[i].kind = "timeslice" /\ sent[i].sim_time < 0

\* C8: msg_deps is the number of generator jobs in the list or in a slot whose
\* completion was not handled yet, at the top of the loop and right after the
\* dependency tracking of the iteration that serves any pending request.
C8_DepsCountsGenerators ==
    /\ msg_deps = GenInList(msg_list) + GenInSlots(Slaves)
    /\ mpc = "loop" =>
          \A w \in requests :
              ResolvedDeps(w) =
                  GenInList(ResolvedList(w)) + GenInSlots(Slaves \ {w})

\* C8 witness: one load_xyts_ts is in a slot, another still in the list.
C8_Witness ==
    /\ msg_deps = 2
    /\ GenInList(msg_list) = 1
    /\ GenInSlots(Slaves) = 1

\* C9: a load_xyts_ts is sent only after the completion of load_xyts was
\* handled, and a timeslice of a dynamic frame only after the completion of
\* the load_xyts_ts with start = xpos mod W was handled.
C9_PrerequisiteObserved ==
    \A i \in 1 .. Len(sent) :
        /\ sent[i].kind = "load_xyts_ts" =>
              \E o \in observed : o.kind = "load_xyts"
        /\ (sent[i].kind = "timeslice" /\ sent[i].sim_time >= 0) =>
              \E o \in observed :
                  /\ o.kind = "load_xyts_ts"
                  /\ o.start = xpos(sent[i].sim_time) % cfg.W

\* C9 witness: a dynamic frame was sent while another load_xyts_ts is
\* still unhandled.
C9_Witness ==
    /\ \E i \in 1 .. Len(sent) : sent[i].kind = "timeslice" /\ sent[i].sim_time >= 0
    /\ msg_deps > 0

\* C10: when msg_deps is 0 initially and J jobs are in the list, the replies
\* are the J jobs in list order followed by W StopIteration, one per slave,
\* and no None: J + W replies in total.
ScenarioA == InitDeps(cfg.animate, cfg.xyts_file) = 0

ScenarioAReplies ==
    InitList(cfg.animate, cfg.xyts_file, cfg.frames0, cfg.t_frames)
        \o [k \in 1 .. cfg.W |-> StopIteration]

\* J: a single frame without --animate, else both stages of static frames.
ScenarioAJobs == IF cfg.animate THEN cfg.frames0 + cfg.t_frames ELSE 1

C10_ScenarioA ==
    ScenarioA =>
        /\ ~waited
        /\ IsPrefix(sent, ScenarioAReplies)
        /\ mpc # "loop" =>
              /\ sent = ScenarioAReplies
              /\ msg_list = <<>>
              /\ Len(sent) = ScenarioAJobs + cfg.W
              /\ \A w \in Slaves : stops[w] = 1

\* C10 witness: Scenario A has finished, 3 slaves and 10 pre-enqueued frames.
C10_Witness ==
    /\ cfg = ScenarioAInput
    /\ mpc = "done"
    /\ Len(sent) = 13

\* The completed load_xyts_ts jobs the master has handled.
ShardsObserved == {o \in observed : o.kind = "load_xyts_ts"}

\* Scenario B: one load_xyts is in the initial list and msg_deps starts at 1.
ScenarioB == cfg.animate /\ cfg.xyts_file

\* C11: in Scenario B, handling the completion of load_xyts takes msg_deps
\* from 1 to W (minus 1, plus W); handling each completed load_xyts_ts lowers
\* it by exactly 1; and it is 0 only once load_xyts and all W load_xyts_ts
\* completions have been handled.
C11_ScenarioB ==
    [][/\ \A w \in requests :
              w \notin requests' =>
                  /\ in_progress[w].kind = "load_xyts" =>
                         msg_deps = 1 /\ msg_deps' = cfg.W
                  /\ in_progress[w].kind = "load_xyts_ts" =>
                         msg_deps' = msg_deps - 1
       /\ (ScenarioB /\ msg_deps' = 0) =>
              /\ \E o \in observed' : o.kind = "load_xyts"
              /\ {o.start : o \in ShardsObserved'} = Slaves]_vars

\* C11 witness: two slaves, both load_xyts_ts completions handled, counter 0.
C11_Witness ==
    /\ ScenarioB
    /\ cfg.W = 2
    /\ Cardinality(ShardsObserved) = 2
    /\ msg_deps = 0

\* The frames i in [0, frames_sr) whose time slice xpos(i) exists in the file
\* and belongs to the partition of the load_xyts_ts job that starts at start.
MatchedFrames(start) ==
    {i \in 0 .. (cfg.frames_sr - 1) :
        xpos(i) >= start /\ xpos(i) < cfg.nt /\ xpos(i) % cfg.W = start}

\* C12: handling a completed load_xyts_ts whose partition matches no frame
\* lowers msg_deps by 1 and appends nothing: the reply is the head of the
\* unchanged list and the rest stays, or a sentinel if the list was empty.
C12_EmptyExpansion ==
    [][\A w \in requests :
          (/\ w \notin requests'
           /\ in_progress[w].kind = "load_xyts_ts"
           /\ MatchedFrames(in_progress[w].start) = {}) =>
              /\ msg_deps' = msg_deps - 1
              /\ nextid' = nextid
              /\ IF msg_list = <<>>
                 THEN msg_list' = <<>> /\ reply'[w] \in {None, StopIteration}
                 ELSE <<reply'[w]>> \o msg_list' = msg_list]_vars

\* C12 witness: a load_xyts_ts completion that matched no frame was handled.
C12_Witness ==
    \E o \in ShardsObserved : MatchedFrames(o.start) = {} /\ cfg.W = 2

\* Slave w ended in a handler: its job stays in its slot and is never
\* reported back, as the slave sends no request after it.
Unobserved(w) ==
    /\ w \notin requests
    /\ IsJob(in_progress[w])
    /\ in_progress[w] = task[w]
    /\ in_progress[w] \notin observed

\* C13 as stated: after a slave crashed with a job of any kind in flight,
\* the job is never observed, msg_deps is never 0 and no StopIteration is
\* ever sent.
C13_CrashAnyJobStalls ==
    \A w \in Slaves :
        (spc[w] = "crashed" /\ IsJob(task[w])) =>
            /\ Unobserved(w)
            /\ msg_deps > 0
            /\ \A v \in Slaves : stops[v] = 0

\* C13, amended: after a slave crashed with a job in flight the job is never
\* observed; if the job is load_xyts or load_xyts_ts, msg_deps is never 0 and
\* no StopIteration is ever sent.
C13_CrashGeneratorStalls ==
    \A w \in Slaves :
        (spc[w] = "crashed" /\ IsJob(task[w])) =>
            /\ Unobserved(w)
            /\ IsGenerator(in_progress[w]) =>
                  /\ msg_deps > 0
                  /\ \A v \in Slaves : stops[v] = 0

\* C13 witness: a slave crashed in load_xyts_ts, the other slave finished
\* its own and has been told to wait since.
C13_Witness ==
    \E w \in Slaves :
        /\ spc[w] = "crashed"
        /\ in_progress[w].kind = "load_xyts_ts"
        /\ Cardinality(ShardsObserved) = 1
        /\ waited

\* Every entry that was ever in msg_list: those sent and those still listed.
Enqueued == Jobs(sent) \o msg_list

\* The time slices load_xyts_ts writes for job e:
\* for t in xrange(job['start'], xfile.nt, job['inc']).
ShardSlices(e) ==
    {t \in 0 .. (cfg.nt - 1) : t >= e.start /\ (t - e.start) % e.inc = 0}

\* C14: the time slices written by distinct load_xyts_ts jobs are pairwise
\* disjoint, and no two timeslice jobs enqueued in a run carry the same seq;
\* so no two jobs in flight write the same artifact.
C14_DisjointArtifacts ==
    LET E == Enqueued
        shards == {E[i] : i \in {k \in 1 .. Len(E) : E[k].kind = "load_xyts_ts"}}
        renders == SelectSeq(E, LAMBDA e : e.kind = "timeslice")
    IN  /\ \A a, b \in shards :
               a # b =>
                   /\ ShardSlices(a) \cap ShardSlices(b) = {}
                   /\ a.start # b.start
        /\ Cardinality({renders[i].seq : i \in 1 .. Len(renders)})
               = Len(renders)

\* C14 witness: two load_xyts_ts jobs with non-empty ranges run at the same
\* time while timeslice jobs of the first stages are finished.
C14_Witness ==
    /\ cfg.nt >= 2
    /\ \E v, w \in Slaves :
          /\ v # w
          /\ spc[v] = "exec" /\ task[v].kind = "load_xyts_ts"
          /\ spc[w] = "exec" /\ task[w].kind = "load_xyts_ts"
          /\ ShardSlices(task[v]) # {} /\ ShardSlices(task[w]) # {}

\* C15: in every master iteration, None is the reply only if the list after
\* the dependency tracking is empty and msg_deps > 0, StopIteration only if
\* that list is empty and msg_deps = 0, and if that list is non-empty the
\* reply is its head job (the old head, or the first job just appended).
C15_ReplyRule ==
    [][\A w \in requests :
          w \notin requests' =>
              LET appended == nextid' - nextid
                  empty == msg_list = <<>> /\ appended = 0
              IN  /\ reply'[w] = None => empty /\ msg_deps' > 0
                  /\ reply'[w] = StopIteration => empty /\ msg_deps' = 0
                  /\ msg_list # <<>> => reply'[w] = Head(msg_list)
                  /\ (msg_list = <<>> /\ appended > 0) =>
                         IsJob(reply'[w]) /\ reply'[w].id = nextid
                  /\ empty => reply'[w] \in {None, StopIteration}]_vars

\* C15 witness: the three kinds of reply have all been sent in one run.
C15_Witness ==
    /\ waited
    /\ \E w \in Slaves : stops[w] = 1
    /\ \E i \in 1 .. Len(sent) : sent[i].kind = "timeslice"
    /\ cfg.W = 2

\* The master has sent StopIteration at least once.
Draining == \E v \in Slaves : stops[v] > 0

\* C16: once the first StopIteration has been sent every later reply is
\* StopIteration (no job and no None follows), and nproc goes down by exactly
\* 1 with each StopIteration sent and by nothing otherwise.
C16_DrainingOnlyStops ==
    [][\A w \in requests :
          w \notin requests' =>
              /\ Draining => reply'[w] = StopIteration
              /\ nproc' = IF reply'[w] = StopIteration
                          THEN nproc - 1 ELSE nproc]_vars

\* C16 witness: three slaves, two were sent StopIteration one after the
\* other after load_xyts_ts jobs were handled, the third is still to ask.
C16_Witness ==
    /\ cfg.W = 3
    /\ nproc = 1
    /\ Len(sent) >= 2
    /\ sent[Len(sent)] = StopIteration
    /\ sent[Len(sent) - 1] = StopIteration
    /\ ShardsObserved # {}

\* Slave w has entered (or passed) comm.gather.
SlaveInGather(w) == spc[w] \in {"gather", "done"}

\* C17: the master enters the final gather once, only with nproc = 0, and
\* each slave enters it once, only after it received StopIteration; when the
\* master is in the gather no request is unanswered (each slave is in the
\* gather too or its StopIteration is on the way), so the gather completes.
C17_GatherBarrier ==
    /\ [](mpc # "loop" =>
            /\ nproc = 0
            /\ requests = {}
            /\ \A w \in Slaves :
                  \/ SlaveInGather(w)
                  \/ spc[w] = "blocked" /\ reply[w] = StopIteration)
    /\ [](\A w \in Slaves :
            SlaveInGather(w) => task[w] = StopIteration /\ stops[w] = 1)
    /\ [][/\ mpc # "loop" => mpc' # "loop"
          /\ mpc = "done" => mpc' = "done"
          /\ \A w \in Slaves :
                /\ SlaveInGather(w) => spc'[w] \in {"gather", "done"}
                /\ spc[w] = "done" => spc'[w] = "done"]_vars
    /\ (mpc = "gather") ~> (mpc = "done")

\* C17 witness: the master is in the gather while the last StopIteration
\* has not been received yet.
C17_Witness ==
    /\ mpc = "gather"
    /\ cfg.W = 2
    /\ \E w \in Slaves : spc[w] = "blocked" /\ reply[w] = StopIteration
    /\ \E w \in Slaves : spc[w] = "gather"

\* Slave w has been handed StopIteration: it returned from sendrecv with it,
\* or the master's send is done and the message is on its way to w.
HandedStop(w) ==
    /\ stops[w] = 1
    /\ \/ task[w] = StopIteration
       \/ spc[w] = "blocked" /\ reply[w] = StopIteration

\* C18: when the master has left its loop msg_list is empty, msg_deps is 0
\* and each of the W slaves has been handed StopIteration as its last reply;
\* by the end of the run each of them has received it.
C18_LoopExit ==
    mpc # "loop" =>
        /\ msg_list = <<>>
        /\ msg_deps = 0
        /\ Cardinality({w \in Slaves : HandedStop(w)}) = cfg.W
        /\ mpc = "done" => \A w \in Slaves : task[w] = StopIteration

\* C18 witness: the master has just left its loop in a run of three slaves
\* that went through load_xyts and the load_xyts_ts jobs.
C18_Witness ==
    /\ mpc = "gather"
    /\ cfg.W = 3
    /\ Cardinality(ShardsObserved) = 3

\* C19 as stated: after the master replied StopIteration to slave w, the
\* slot in_progress[w] holds no entry.
C19_StopNotTracked ==
    \A w \in Slaves : stops[w] > 0 => in_progress[w] = None

\* C19, amended: after the master replied StopIteration to slave w, the slot
\* in_progress[w] holds StopIteration, like any other reply; w sends no
\* further request, so the slot is not read again.
C19_StopStored ==
    \A w \in Slaves :
        stops[w] > 0 => in_progress[w] = StopIteration /\ w \notin requests

\* C19 witness: one slave was sent StopIteration while the master is still
\* in its loop and another slave is still at work.
C19_Witness ==
    /\ mpc = "loop"
    /\ \E w \in Slaves : stops[w] = 1 /\ in_progress[w] = StopIteration
    /\ \E v \in Slaves : spc[v] = "exec" /\ IsJob(task[v])

\* The timeslice jobs for the frames of MatchedFrames(start), in increasing
\* frame index: seq frames + i for frame i, list positions from first on.
ExpectedRenders(start, first) ==
    LET idx == SelectSeq([k \in 1 .. cfg.frames_sr |-> k - 1],
                         LAMBDA i : i \in MatchedFrames(start))
    IN  [k \in 1 .. Len(idx) |->
            timeslice(frames + idx[k], idx[k], first + k - 1)]

\* C20: handling a completed load_xyts_ts {start, inc = W} lowers msg_deps by
\* exactly 1 and appends, behind the jobs already listed, one timeslice job
\* for each frame i in [0, frames_sr) whose xpos(i) is in range(start, nt, W),
\* in increasing i, and for no other frame.
C20_ShardExpansion ==
    [][\A w \in requests :
          (w \notin requests' /\ in_progress[w].kind = "load_xyts_ts") =>
              LET start == in_progress[w].start
                  list == msg_list \o ExpectedRenders(start, nextid)
              IN  /\ in_progress[w].inc = cfg.W
                  /\ msg_deps' = msg_deps - 1
                  /\ nextid' = nextid + Cardinality(MatchedFrames(start))
                  /\ IF list = <<>>
                     THEN /\ msg_list' = <<>>
                          /\ reply'[w] \in {None, StopIteration}
                     ELSE <<reply'[w]>> \o msg_list' = list]_vars

\* C20 witness: all load_xyts_ts completions of a run are handled; one of
\* them matched two frames, one a single frame.
C20_Witness ==
    /\ \E o \in ShardsObserved : Cardinality(MatchedFrames(o.start)) >= 2
    /\ \E o \in ShardsObserved : Cardinality(MatchedFrames(o.start)) = 1
    /\ Cardinality(ShardsObserved) = cfg.W

\* C21: when the slot of the requesting slave holds a timeslice job or None,
\* the dependency tracking changes nothing: msg_deps is unchanged, nothing
\* is appended, and the reply is taken from the list as it was.
C21_NoResolverAction ==
    [][\A w \in requests :
          (w \notin requests'
           /\ in_progress[w].kind \in {"timeslice", "None"}) =>
              /\ msg_deps' = msg_deps
              /\ nextid' = nextid
              /\ observed' = observed
              /\ IF msg_list = <<>>
                 THEN msg_list' = <<>> /\ reply'[w] \in {None, StopIteration}
                 ELSE <<reply'[w]>> \o msg_list' = msg_list]_vars

\* C21 witness: a run with load_xyts is over in which a slave was told to
\* wait and timeslice jobs were done; all their completions were handled.
C21_Witness ==
    /\ mpc = "done"
    /\ waited
    /\ ScenarioB
    /\ \E i \in 1 .. Len(sent) : sent[i].kind = "timeslice"

\* The generator jobs the master has sent so far.
GeneratorsSent == {sent[i] : i \in {k \in 1 .. Len(sent) : IsGenerator(sent[k])}}

\* C22: the dependency tracking runs exactly once for each generator job
\* sent: in the iteration serving the next request of the slave that got the
\* job, for a job not handled before and held by no other slot; that
\* iteration overwrites the slot, and iterations serving any other slot
\* handle no generator.  When the master leaves its loop every generator job
\* sent has been handled.
C22_ResolverOncePerGenerator ==
    [][/\ \A w \in requests :
              w \notin requests' =>
                  IF IsGenerator(in_progress[w])
                  THEN /\ in_progress[w] \in GeneratorsSent
                       /\ in_progress[w] \notin observed
                       /\ task[w] = in_progress[w]
                       /\ observed' = observed \cup {in_progress[w]}
                       /\ in_progress'[w] # in_progress[w]
                       /\ \A v \in Slaves \ {w} :
                             in_progress[v] # in_progress[w]
                  ELSE observed' = observed
       /\ mpc' # "loop" => observed' = GeneratorsSent']_vars

\* C22 witness: the master has left its loop in a run of two slaves after
\* load_xyts and both load_xyts_ts jobs were sent and handled.
C22_Witness ==
    /\ mpc = "gather"
    /\ cfg.W = 2
    /\ Cardinality(GeneratorsSent) = 3
    /\ observed = GeneratorsSent

\* C23: a slave whose sendrecv returns StopIteration leaves its loop for the
\* gather without running a handler, sends no request from then on and
\* stays there; a slave is in the gather only after StopIteration was its
\* last reply.
C23_StopEndsSlaveLoop ==
    [][\A w \in Slaves :
          /\ (spc[w] = "blocked" /\ reply[w] = StopIteration
              /\ spc'[w] # "blocked") =>
                 /\ spc'[w] = "gather"
                 /\ task'[w] = StopIteration
                 /\ requests' = requests
                 /\ executed' = executed
          /\ SlaveInGather(w) =>
                 /\ w \notin requests /\ w \notin requests'
                 /\ spc'[w] \in {"gather", "done"}
                 /\ task'[w] = StopIteration
          /\ spc'[w] \in {"gather", "done"} =>
                 task'[w] = StopIteration /\ stops'[w] = 1]_vars

\* C23 witness: one slave is in the gather while the master is still in its
\* loop and the other slave is busy with a job.
C23_Witness ==
    /\ mpc = "loop"
    /\ \E w \in Slaves : spc[w] = "gather"
    /\ \E v \in Slaves : spc[v] = "exec" /\ IsJob(task[v])

\* Every rank a run of one or two slaves has.
SmallRanks == UNION {0 .. (c.W - 1) : c \in SmallConfigs}

\* C24: a slave that was handed None runs no handler and sends its next
\* request; and under fair scheduling a slave that was handed None is
\* eventually handed a job or StopIteration.
C24_WaitEnds ==
    /\ [][\A w \in Slaves :
             (spc[w] = "exec" /\ task[w] = None /\ spc'[w] # "exec") =>
                 /\ spc'[w] = "blocked"
                 /\ w \in requests'
                 /\ executed' = executed]_vars
    /\ \A w \in SmallRanks :
          (w \in Slaves /\ spc[w] = "exec" /\ task[w] = None)
              ~> (w \in Slaves /\ task[w] # None)

\* C24 witness: a slave that was told to wait has since been handed
\* StopIteration, and the run is over.
C24_Witness ==
    /\ waited
    /\ mpc = "done"
    /\ cfg.W = 2
    /\ Cardinality(ShardsObserved) = 2

\* Entry t carries none of the tags the slave loop tests for.
UnknownTag(t) ==
    t.kind \notin {"None", "StopIteration", "load_xyts", "load_xyts_ts",
                   "timeslice"}

ServedOnly(w) ==
    /\ w \in requests
    /\ requests' = requests \ {w}
    /\ reply[w] = NoMsg
    /\ reply'[w] # NoMsg
    /\ in_progress'[w] = reply'[w]
    /\ \A v \in Slaves \ {w} :
          reply'[v] = reply[v] /\ in_progress'[v] = in_progress[v]

\* C26: the master handles one request per iteration and answers it with
\* exactly one reply, sent to the slave that asked; msg_list, msg_deps,
\* nproc and the slots change, and replies are sent, in such iterations only.
C26_OneRequestOneReply ==
    [][/\ \A w \in requests : w \notin requests' => ServedOnly(w)
       /\ (\/ <<msg_list, msg_deps, in_progress, nproc>>'
                 # <<msg_list, msg_deps, in_progress, nproc>>
           \/ \E v \in Slaves : reply'[v] # reply[v] /\ reply'[v] # NoMsg) =>
              \E w \in requests : ServedOnly(w)]_vars

\* C26 witness: the requests of two slaves were pending together and have
\* been answered one after the other with one job each.
C26_Witness ==
    /\ cfg.W = 2
    /\ requests = {}
    /\ \A w \in Slaves : spc[w] = "blocked" /\ IsJob(reply[w])
    /\ reply[0] # reply[1]

\* C27: whenever the master handles a finished load_xyts or load_xyts_ts,
\* nproc still equals the number of slaves W and no StopIteration has been
\* sent (none is sent while msg_deps > 0); so load_xyts fans out into W jobs
\* carrying inc = W, and the stride nproc used for a finished load_xyts_ts
\* equals the inc stored in that job.
C27_NprocIsWidthAtResolver ==
    [][/\ msg_deps > 0 => nproc = cfg.W /\ ~Draining
       /\ \A w \in requests :
              (w \notin requests' /\ IsGenerator(in_progress[w])) =>
                  /\ msg_deps > 0
                  /\ nproc = cfg.W
                  /\ ~Draining
                  /\ in_progress[w].kind = "load_xyts_ts" =>
                         in_progress[w].inc = nproc
                  /\ in_progress[w].kind = "load_xyts" =>
                         /\ nextid' - nextid = cfg.W
                         /\ \A i \in 1 .. Len(msg_list') :
                               msg_list'[i].kind = "load_xyts_ts" =>
                                   msg_list'[i].inc = cfg.W]_vars

\* C27 witness: three slaves, all three load_xyts_ts completions handled,
\* and StopIteration is being sent since.
C27_Witness ==
    /\ cfg.W = 3
    /\ Cardinality(ShardsObserved) = 3
    /\ Draining
    /\ nproc = 2

\* C28: in a crash-free run a slave runs the handler of the job the master
\* recorded for it, once; the master sends StopIteration to a slave only on
\* a request made after the slave's previous job was done; and when the
\* master leaves its loop every job ever appended has been sent exactly
\* once and its handler has returned.
C28_AllJobsDone ==
    [][/\ \A w \in Slaves :
              (spc[w] = "exec" /\ IsJob(task[w]) /\ spc'[w] # "exec") =>
                  /\ task[w] = in_progress[w]
                  /\ \E i \in 1 .. Len(sent) : sent[i] = task[w]
                  /\ task[w].id \notin executed
                  /\ executed' = executed \cup {task[w].id}
       /\ \A w \in requests :
              (w \notin requests' /\ IsJob(in_progress[w])) =>
                  in_progress[w].id \in executed
       /\ mpc' # "loop" =>
              /\ msg_list' = <<>>
              /\ Ids(Jobs(sent')) = [i \in 1 .. (nextid' - 1) |-> i]
              /\ executed' = 1 .. (nextid' - 1)]_vars

\* C28 witness: the master has left its loop in the run of three slaves
\* with load_xyts; all eleven jobs of the run are done.
C28_Witness ==
    /\ cfg = ThreeSlaveInput
    /\ mpc = "gather"
    /\ nextid = 12
    /\ executed = 1 .. 11

\* The timeslice jobs sent with seq frames + i, for the dynamic frame i.
RendersOf(i) ==
    {k \in 1 .. Len(sent) :
        sent[k].kind = "timeslice" /\ sent[k].seq = frames + i}

\* C29: in an animate run with load_xyts, once the master has left its loop
\* exactly one timeslice job with seq frames + i was enqueued (and sent) for
\* every dynamic frame i in [0, frames_sr).
C29_EveryDynamicFrameRendered ==
    (ScenarioB /\ mpc # "loop") =>
        \A i \in 0 .. (cfg.frames_sr - 1) : Cardinality(RendersOf(i)) = 1

\* C29 failing case: the file holds a time slice, both load_xyts_ts jobs of
\* two slaves were handled and the master has left its loop, yet no
\* timeslice job was ever enqueued for some frame i whose xpos(i) >= nt.
C29_Witness ==
    /\ ScenarioB
    /\ mpc # "loop"
    /\ cfg.W = 2
    /\ cfg.nt >= 1
    /\ Cardinality(ShardsObserved) = 2
    /\ \E i \in 0 .. (cfg.frames_sr - 1) :
          xpos(i) >= cfg.nt /\ RendersOf(i) = {}

\* C30: once a slave has crashed inside its loop body, with a job or while
\* waiting between two requests, the master never leaves its loop: nproc
\* stays above 0, as that slave never asks for its StopIteration.  If the
\* slave held load_xyts or load_xyts_ts, msg_deps stays above 0 and no
\* StopIteration is ever sent; every other slave gets jobs while the list
\* lasts and from some point on only None.
C30_CrashStalls ==
    /\ [](\A w \in Slaves :
            spc[w] = "crashed" =>
                /\ mpc = "loop"
                /\ nproc > 0
                /\ stops[w] = 0
                /\ w \notin requests
                /\ reply[w] = NoMsg
                /\ IsGenerator(task[w]) => msg_deps > 0 /\ ~Draining)
    /\ (\E w \in Slaves : spc[w] = "crashed" /\ IsGenerator(task[w]))
          ~> [](\A v \in Slaves : spc[v] = "crashed" \/ task[v] = None)

\* C30 witness: one slave crashed in load_xyts_ts; the other one finished
\* its job, was told to wait, and is waiting.
C30_Witness ==
    \E w, v \in Slaves :
        /\ spc[w] = "crashed"
        /\ task[w].kind = "load_xyts_ts"
        /\ spc[v] = "exec"
        /\ task[v] = None
        /\ executed # {}

\* C31: seen at the receive points of the master loop, once msg_deps is 0 it
\* stays 0 and no job and no None is appended any more: the list only
\* shrinks from its head; and once a StopIteration has been sent the list
\* is empty at every receive point.
C31_DepsStayZero ==
    [][/\ msg_deps = 0 =>
              /\ msg_deps' = 0
              /\ nextid' = nextid
              /\ waited' = waited
              /\ \/ msg_list' = msg_list
                 \/ msg_list # <<>> /\ msg_list' = Tail(msg_list)
       /\ Draining => msg_list = <<>> /\ msg_list' = <<>>]_vars

\* C31 witness: load_xyts and both load_xyts_ts completions were handled,
\* the counter is back at 0 while timeslice jobs are still listed, and a
\* slave had been told to wait before.
C31_Witness ==
    /\ ScenarioB
    /\ cfg.W = 2
    /\ msg_deps = 0
    /\ Cardinality(ShardsObserved) = 2
    /\ Len(msg_list) >= 1
    /\ waited

\* C32: whenever the master replies None to slave w, the slot of some other
\* slave holds a load_xyts or load_xyts_ts job whose completion has not been
\* handled; hence a run with a single slave never sends None.
C32_WaitHasCause ==
    [][/\ \A w \in requests :
              (w \notin requests' /\ reply'[w] = None) =>
                  \E v \in Slaves \ {w} :
                      /\ IsGenerator(in_progress'[v])
                      /\ in_progress'[v] \notin observed'
       /\ cfg.W = 1 => ~waited']_vars

\* C32 witness: a None reply is on its way to one slave while the other is
\* at work on a load_xyts_ts job.
C32_Witness ==
    \E w, v \in Slaves :
        /\ w # v
        /\ reply[w] = None
        /\ spc[v] = "exec"
        /\ task[v].kind = "load_xyts_ts"
        /\ in_progress[v] = task[v]

\* C33: at every receive point of the master loop msg_list holds job
\* entries only; a sentinel (None or StopIteration) is sent only from an
\* empty list and leaves the list empty again.
C33_NoSentinelInList ==
    [][/\ \A i \in 1 .. Len(msg_list) : IsJob(msg_list[i])
       /\ \A i \in 1 .. Len(msg_list') : IsJob(msg_list'[i])
       /\ \A w \in requests :
              (w \notin requests' /\ ~IsJob(reply'[w])) =>
                  /\ reply'[w] \in {None, StopIteration}
                  /\ msg_list = <<>>
                  /\ nextid' = nextid
                  /\ msg_list' = <<>>]_vars

\* C33 witness: a slave was told to wait, and the list has since been
\* filled again with timeslice jobs of a finished load_xyts_ts job.
C33_Witness ==
    /\ waited
    /\ Len(msg_list) >= 1
    /\ \A i \in 1 .. Len(msg_list) : msg_list[i].kind = "timeslice"
    /\ Cardinality(ShardsObserved) >= 1

\* The number of StopIteration replies sent so far.
StopsSent == Cardinality({i \in 1 .. Len(sent) : sent[i] = StopIteration})

\* C34: nproc equals W minus the number of StopIteration replies sent so
\* far; it is within 0..W and never negative.
C34_NprocCountsStops ==
    /\ nproc = cfg.W - StopsSent
    /\ nproc \in 0 .. cfg.W
    /\ mpc = "loop" <=> nproc > 0

\* C34 witness: all three slaves of a run were sent StopIteration and
\* nproc is 0.
C34_Witness ==
    /\ cfg.W = 3
    /\ StopsSent = 3
    /\ nproc = 0
    /\ ShardsObserved # {}

====
